---- MODULE Spec2Model ----
(***************************************************************************)
(* Bruin Plate meal optimizer: MealOptimizer.optimize_meal_plan and        *)
(* MealOptimizer.generate_multiple_plans of src/optimizer/meal_optimizer.py *)
(* as a state machine.  One or two callers share one MealOptimizer          *)
(* instance (self.foods); every caller runs its call step by step:         *)
(* validate the meal selection, build the decision model, invoke the       *)
(* solver, format the result, and (generate_multiple_plans) loop.          *)
(*                                                                         *)
(* Numbers.  Nutrients, targets and tolerances are integers.  A solver     *)
(* value is an integer count of micro-servings (Scale per serving), so the *)
(* formatter's "> 0.01" test and its int(round(.)) act on values that are  *)
(* only approximately integral.  diversity_weight is given in tenths.      *)
(* Strings whose case or content the code inspects (meal names,            *)
(* categories) are sequences of one-character strings.                     *)
(***************************************************************************)
EXTENDS Integers, Sequences, FiniteSets, TLC

(***************************************************************************)
(* Bounds of the model.                                                    *)
(***************************************************************************)
\* largest number of records in a catalog
MaxCatalog == 3
\* largest max_servings_per_item a request carries
MaxServings == 2
\* largest num_plans a generate_multiple_plans call carries
MaxPlans == 2
\* numerical noise of a solver value, in micro-servings
IntTol == 1

\* micro-servings per serving
Scale == 1000 * 1000

(***************************************************************************)
(* Strings: str.lower(), the "in" substring test, ", ".join                *)
(***************************************************************************)
UpperToLower ==
    ( "A" :> "a" @@ "B" :> "b" @@ "C" :> "c" @@ "D" :> "d" @@ "E" :> "e" @@
      "F" :> "f" @@ "G" :> "g" @@ "H" :> "h" @@ "I" :> "i" @@ "J" :> "j" @@
      "K" :> "k" @@ "L" :> "l" @@ "M" :> "m" @@ "N" :> "n" @@ "O" :> "o" @@
      "P" :> "p" @@ "Q" :> "q" @@ "R" :> "r" @@ "S" :> "s" @@ "T" :> "t" @@
      "U" :> "u" @@ "V" :> "v" @@ "W" :> "w" @@ "X" :> "x" @@ "Y" :> "y" @@
      "Z" :> "z" )

\* str.lower()
Lower(s) ==
    [i \in DOMAIN s |-> IF s[i] \in DOMAIN UpperToLower THEN UpperToLower[s[i]] ELSE s[i]]

\* sub in s
Contains(sub, s) ==
    \E i \in 0..(Len(s) - Len(sub)) : SubSeq(s, i + 1, i + Len(sub)) = sub

\* ", ".join(list)
RECURSIVE JoinComma(_)
JoinComma(list) ==
    IF list = <<>> THEN <<>>
    ELSE IF Len(list) = 1 THEN list[1]
    ELSE list[1] \o <<",", " ">> \o JoinComma(Tail(list))

\* whether x is an element of the list
InList(x, list) == \E k \in DOMAIN list : list[k] = x

BREAKFAST == <<"b", "r", "e", "a", "k", "f", "a", "s", "t">>
LUNCH == <<"l", "u", "n", "c", "h">>
DINNER == <<"d", "i", "n", "n", "e", "r">>
UNKNOWN == <<"u", "n", "k", "n", "o", "w", "n">>

\* dict.get(key, default)
Get(d, key, default) == IF key \in DOMAIN d THEN d[key] ELSE default

\* the sum of f over the set S of its arguments
RECURSIVE SumF(_, _)
SumF(f, S) ==
    IF S = {} THEN 0
    ELSE LET x == CHOOSE y \in S : TRUE IN f[x] + SumF(f, S \ {x})

(***************************************************************************)
(* The menu catalog (self.foods).  A food record is a dict: a function     *)
(* from keys to values, any key of which may be absent.  A catalog is up   *)
(* to MaxCatalog records of the pool, in the pool's order.                 *)
(***************************************************************************)
CEREAL == <<"C", "e", "r", "e", "a", "l">>
PROTEIN == <<"P", "r", "o", "t", "e", "i", "n">>
FRESH_FRUIT == <<"F", "r", "e", "s", "h", " ", "F", "r", "u", "i", "t">>
FRUIT_DRINK == <<"F", "r", "u", "i", "t", " ", "D", "r", "i", "n", "k">>

FoodPool ==
    << [name |-> "Oatmeal", meal_time |-> BREAKFAST, category |-> CEREAL,
        calories |-> 150, protein |-> 5, carbs |-> 27],
       [name |-> "Eggs", meal_time |-> BREAKFAST, category |-> PROTEIN,
        calories |-> 140, protein |-> 12],
       [name |-> "Apple", meal_time |-> LUNCH, category |-> FRESH_FRUIT,
        calories |-> 100, protein |-> 1, carbs |-> 25],
       [name |-> "Chicken", meal_time |-> LUNCH,
        calories |-> 300, protein |-> 30, fat |-> 7, sodium |-> 90],
       [name |-> "Apple", meal_time |-> DINNER, category |-> FRESH_FRUIT,
        calories |-> 100, protein |-> 1, carbs |-> 25],
       [name |-> "Rice", meal_time |-> DINNER, category |-> CEREAL,
        calories |-> 200, carbs |-> 45, fiber |-> 1],
       [name |-> "Fruit Punch", meal_time |-> UNKNOWN, category |-> FRUIT_DRINK,
        calories |-> 120, protein |-> 2] >>

\* the elements of the set S of integers, ascending
RECURSIVE Ascending(_)
Ascending(S) ==
    IF S = {} THEN <<>>
    ELSE LET m == CHOOSE x \in S : \A y \in S : x <= y
         IN <<m>> \o Ascending(S \ {m})

Catalogs ==
    { [k \in 1..Cardinality(S) |-> FoodPool[Ascending(S)[k]]] :
        S \in { T \in SUBSET (DOMAIN FoodPool) : Cardinality(T) \in 1..MaxCatalog } }

(***************************************************************************)
(* Requests: the keyword arguments of a call.  selected_meals and          *)
(* exclude_items may be absent (None).  diversity_weight is in tenths.     *)
(***************************************************************************)
Targets ==
    { [target_calories |-> 300, calorie_tolerance |-> 50,
       target_protein |-> 15, protein_tolerance |-> 5],
      [target_calories |-> 600, calorie_tolerance |-> 150,
       target_protein |-> 40, protein_tolerance |-> 20] }

FruitLimits ==
    { [min_fruits |-> 0, max_fruits |-> 1],
      [min_fruits |-> 1, max_fruits |-> 2],
      [min_fruits |-> 1, max_fruits |-> 3],
      [min_fruits |-> 2, max_fruits |-> 1] }

SelectedMealsInputs ==
    { <<>>,
      << <<"s", "n", "a", "c", "k">> >>,
      << <<"L", "U", "N", "C", "H">> >>,
      << BREAKFAST >>,
      << BREAKFAST, LUNCH >>,
      << <<"L", "u", "n", "c", "h">>, <<"s", "n", "a", "c", "k">>, BREAKFAST >>,
      << LUNCH, DINNER >>,
      << LUNCH, LUNCH >> }

ExcludeInputs == { <<"Chicken">> }

\* an absent keyword argument
Absent == <<>>

Requests ==
    { t @@ f @@ [diversity_weight |-> 1, max_servings_per_item |-> ms] @@ sm @@ ex :
        t \in Targets, f \in FruitLimits, ms \in 1..MaxServings,
        sm \in {Absent} \cup { [selected_meals |-> s] : s \in SelectedMealsInputs },
        ex \in {Absent} \cup { [exclude_items |-> e] : e \in ExcludeInputs } }

(***************************************************************************)
(* optimize_meal_plan: validation and eligibility                          *)
(***************************************************************************)
valid_meals == <<BREAKFAST, LUNCH, DINNER>>

\* selected_meals after lines 85-91: the default, then the lower-cased valid entries
RECURSIVE NormalizeMeals(_)
NormalizeMeals(list) ==
    IF list = <<>> THEN <<>>
    ELSE IF InList(Lower(Head(list)), valid_meals)
         THEN <<Lower(Head(list))>> \o NormalizeMeals(Tail(list))
         ELSE NormalizeMeals(Tail(list))

SelectedMeals(args) ==
    IF "selected_meals" \in DOMAIN args
    THEN NormalizeMeals(args["selected_meals"])
    ELSE NormalizeMeals(valid_meals)

\* exclude_set of line 102
ExcludeSet(args) ==
    IF "exclude_items" \in DOMAIN args
    THEN { args["exclude_items"][k] : k \in DOMAIN args["exclude_items"] }
    ELSE {}

\* IsEligible without the test of line 111
IsEligibleAnyMeal(food, selected, exclude_set) ==
    ~ ("name" \in DOMAIN food /\ food["name"] \in exclude_set)

\* IsEligible without the test of line 113
IsEligibleAnyName(food, selected, exclude_set) ==
    /\ "meal_time" \in DOMAIN food
    /\ InList(food["meal_time"], selected)

\* whether the loop of lines 109-122 gives food a decision variable
IsEligible(food, selected, exclude_set) ==
    /\ "meal_time" \in DOMAIN food
    /\ InList(food["meal_time"], selected)
    /\ ~ ("name" \in DOMAIN food /\ food["name"] \in exclude_set)

\* the keys of food_vars
FoodVars(fs, selected, exclude_set) ==
    { i \in DOMAIN fs : IsEligible(fs[i], selected, exclude_set) }

\* _is_fruit
IsFruit(food) ==
    LET category == Lower(Get(food, "category", <<>>))
        fruit_keywords == << <<"f", "r", "u", "i", "t">> >>
    IN \E k \in DOMAIN fruit_keywords : Contains(fruit_keywords[k], category)

(***************************************************************************)
(* optimize_meal_plan: the decision model (lines 104-185).  A constraint   *)
(* is a named linear row over the variables.  The rows of the per-meal     *)
(* minimum are scaled by 10 * num_selected_meals, so that                  *)
(* meal_calories >= (target_calories / num_selected_meals) * 0.5 reads     *)
(* 10 * num_selected_meals * meal_calories >= 5 * target_calories.         *)
(***************************************************************************)
MIN_CALORIES == <<"M", "i", "n", "_", "C", "a", "l", "o", "r", "i", "e", "s">>
MAX_CALORIES == <<"M", "a", "x", "_", "C", "a", "l", "o", "r", "i", "e", "s">>
MIN_PROTEIN == <<"M", "i", "n", "_", "P", "r", "o", "t", "e", "i", "n">>
MAX_PROTEIN == <<"M", "a", "x", "_", "P", "r", "o", "t", "e", "i", "n">>
MIN_FRUITS == <<"M", "i", "n", "_", "F", "r", "u", "i", "t", "s">>
MAX_FRUITS == <<"M", "a", "x", "_", "F", "r", "u", "i", "t", "s">>

\* f"Min_{meal_time}_calories"
MealRowName(meal_time) ==
    <<"M", "i", "n", "_">> \o meal_time \o <<"_", "c", "a", "l", "o", "r", "i", "e", "s">>

\* the coefficient of every variable in the sum of a nutrient over the variables of S
NutrientCoef(fs, vars, S, key) ==
    [i \in vars |-> IF i \in S THEN Get(fs[i], key, 0) ELSE 0]

\* Objective without protein_objective
ObjectiveDiversityOnly(fs, vars, args) ==
    [i \in vars |-> 0 - args["diversity_weight"]]

\* maximize protein_objective + diversity_term (lines 133-140), times 10
Objective(fs, vars, args) ==
    [i \in vars |-> 10 * Get(fs[i], "protein", 0) - args["diversity_weight"]]

\* CalorieRows without its "Max_Calories" row
CalorieRowsNoMax(fs, vars, args) ==
    << [name |-> MIN_CALORIES, coef |-> NutrientCoef(fs, vars, vars, "calories"),
        sense |-> ">=", rhs |-> args["target_calories"] - args["calorie_tolerance"]] >>

\* CONSTRAINT 1 (lines 143-148)
CalorieRows(fs, vars, args) ==
    << [name |-> MIN_CALORIES, coef |-> NutrientCoef(fs, vars, vars, "calories"),
        sense |-> ">=", rhs |-> args["target_calories"] - args["calorie_tolerance"]],
       [name |-> MAX_CALORIES, coef |-> NutrientCoef(fs, vars, vars, "calories"),
        sense |-> "<=", rhs |-> args["target_calories"] + args["calorie_tolerance"]] >>

\* ProteinRows with the tolerance added to the lower end as well
ProteinRowsShifted(fs, vars, args) ==
    << [name |-> MIN_PROTEIN, coef |-> NutrientCoef(fs, vars, vars, "protein"),
        sense |-> ">=", rhs |-> args["target_protein"] + args["protein_tolerance"]],
       [name |-> MAX_PROTEIN, coef |-> NutrientCoef(fs, vars, vars, "protein"),
        sense |-> "<=", rhs |-> args["target_protein"] + 2 * args["protein_tolerance"]] >>

\* CONSTRAINT 2 (lines 151-156)
ProteinRows(fs, vars, args) ==
    << [name |-> MIN_PROTEIN, coef |-> NutrientCoef(fs, vars, vars, "protein"),
        sense |-> ">=", rhs |-> args["target_protein"] - args["protein_tolerance"]],
       [name |-> MAX_PROTEIN, coef |-> NutrientCoef(fs, vars, vars, "protein"),
        sense |-> "<=", rhs |-> args["target_protein"] + args["protein_tolerance"]] >>

\* meal_foods of lines 163-164
MealFoods(fs, vars, meal_time) ==
    { i \in vars : Get(fs[i], "meal_time", <<>>) = meal_time }

\* MealFactor with no minimum left
MealFactorNone(meal_time, num_selected_meals) == 0

\* ten times the factor of lines 173-177
MealFactor(meal_time, num_selected_meals) ==
    IF meal_time = BREAKFAST /\ num_selected_meals > 1 THEN 5 ELSE 8

\* max(num_selected_meals, 1) of line 160
MealDivisor(selected) == IF Len(selected) > 1 THEN Len(selected) ELSE 1

\* CONSTRAINT 3 (lines 159-177): one row for every entry of selected_meals that has foods
RECURSIVE MealRowsFrom(_, _, _, _, _)
MealRowsFrom(fs, vars, selected, args, k) ==
    IF k > Len(selected) THEN <<>>
    ELSE LET meal_time == selected[k]
             meal_foods == MealFoods(fs, vars, meal_time)
             scaled == [i \in vars |->
                           10 * MealDivisor(selected)
                              * NutrientCoef(fs, vars, meal_foods, "calories")[i]]
             row == [name |-> MealRowName(meal_time), coef |-> scaled, sense |-> ">=",
                     rhs |-> args["target_calories"] * MealFactor(meal_time, Len(selected))]
         IN (IF meal_foods # {} THEN <<row>> ELSE <<>>)
               \o MealRowsFrom(fs, vars, selected, args, k + 1)

MealRows(fs, vars, selected, args) == MealRowsFrom(fs, vars, selected, args, 1)

\* fruit_foods of line 180
FruitFoods(fs, vars) == { i \in vars : IsFruit(fs[i]) }

\* FruitRows added whether or not a fruit is eligible
FruitRowsAlways(fs, vars, args) ==
    LET fruit_foods == FruitFoods(fs, vars)
        ones == [i \in vars |-> IF i \in fruit_foods THEN 1 ELSE 0]
    IN << [name |-> MIN_FRUITS, coef |-> ones, sense |-> ">=", rhs |-> args["min_fruits"]],
          [name |-> MAX_FRUITS, coef |-> ones, sense |-> "<=", rhs |-> args["max_fruits"]] >>

\* CONSTRAINT 4 (lines 180-185)
FruitRows(fs, vars, args) ==
    LET fruit_foods == FruitFoods(fs, vars)
        ones == [i \in vars |-> IF i \in fruit_foods THEN 1 ELSE 0]
    IN IF fruit_foods # {}
       THEN << [name |-> MIN_FRUITS, coef |-> ones, sense |-> ">=", rhs |-> args["min_fruits"]],
               [name |-> MAX_FRUITS, coef |-> ones, sense |-> "<=", rhs |-> args["max_fruits"]] >>
       ELSE <<>>

\* prob after line 185: the variables with their bound, the objective, the rows as added
Problem(fs, vars, selected, args) ==
    [vars |-> vars,
     upBound |-> args["max_servings_per_item"],
     objective |-> Objective(fs, vars, args),
     constraints |-> CalorieRows(fs, vars, args) \o ProteinRows(fs, vars, args)
                        \o MealRows(fs, vars, selected, args) \o FruitRows(fs, vars, args)]

\* "prob += constraint, name" refuses a name the problem already holds (PulpError)
OverlappingNames(rows) ==
    \E j, k \in DOMAIN rows : j < k /\ rows[j].name = rows[k].name

(***************************************************************************)
(* prob.solve() (line 188): an integer-program solver.  It answers Optimal *)
(* with a maximizer of the objective over the integer points that satisfy  *)
(* every row, each value within IntTol of an integer, or a non-Optimal     *)
(* status when no such point exists.                                       *)
(***************************************************************************)
Dot(coef, a) == SumF([i \in DOMAIN coef |-> coef[i] * a[i]], DOMAIN coef)

Satisfies(row, a) ==
    IF row.sense = ">=" THEN Dot(row.coef, a) >= row.rhs ELSE Dot(row.coef, a) <= row.rhs

FeasibleAssignments(prob) ==
    { a \in [prob.vars -> 0..prob.upBound] :
        \A k \in DOMAIN prob.constraints : Satisfies(prob.constraints[k], a) }

OptimalAssignments(prob) ==
    LET feasible == FeasibleAssignments(prob)
    IN { a \in feasible :
           \A b \in feasible : Dot(prob.objective, b) <= Dot(prob.objective, a) }

\* the statuses LpStatus gives a problem without an integer solution
NonOptimalStatuses == {"Infeasible", "Undefined"}

Noise == {0 - IntTol, 0, IntTol}

SolverOutcomes(prob) ==
    IF FeasibleAssignments(prob) = {}
    THEN { [status |-> s, values |-> <<>>] : s \in NonOptimalStatuses }
    ELSE { [status |-> "Optimal", values |-> [i \in prob.vars |-> a[i] * Scale + e]] :
             a \in OptimalAssignments(prob), e \in Noise }

(***************************************************************************)
(* _format_results (lines 274-305)                                         *)
(***************************************************************************)
\* servings > 0.01 (line 281)
Included(v) == 100 * v > Scale

\* int(servings): truncation in place of rounding
Truncated(v) == v \div Scale

\* int(round(servings)) (line 283): to the nearest integer, a tie to the even one
Rounded(v) ==
    LET q == v \div Scale
        r == v % Scale
    IN IF 2 * r < Scale THEN q
       ELSE IF 2 * r > Scale THEN q + 1
       ELSE IF q % 2 = 0 THEN q ELSE q + 1

\* food = self.foods[i].copy(); food["servings"] = ... (lines 282-283)
Annotated(food, v) == ("servings" :> Rounded(v)) @@ food

\* self.foods had line 282 no .copy(): "servings" is written into the catalog record
CatalogAnnotated(fs, values) ==
    [i \in DOMAIN fs |->
        IF i \in DOMAIN values /\ Included(values[i])
        THEN Annotated(fs[i], values[i]) ELSE fs[i]]

\* self.foods after the loop of lines 279-288: the record annotated is a copy
CatalogAfterFormat(fs, values) == fs

\* selected_items (lines 276-284), in the order of food_vars
SelectedItems(fs, values) ==
    LET idx == Ascending({ i \in DOMAIN values : Included(values[i]) })
    IN [k \in DOMAIN idx |-> Annotated(fs[idx[k]], values[idx[k]])]

\* meals (lines 277, 286-288)
MealBuckets(items) ==
    [m \in {BREAKFAST, LUNCH, DINNER} |->
        LET InBucket(food) == Get(food, "meal_time", UNKNOWN) = m
        IN SelectSeq(items, InBucket)]

\* Total without the servings
TotalPerItem(items, key) ==
    SumF([k \in DOMAIN items |-> Get(items[k], key, 0)], DOMAIN items)

\* one entry of totals (lines 290-297)
Total(items, key) ==
    SumF([k \in DOMAIN items |-> Get(items[k], key, 0) * items[k]["servings"]], DOMAIN items)

Totals(items) ==
    [calories |-> Total(items, "calories"), protein |-> Total(items, "protein"),
     carbs |-> Total(items, "carbs"), fat |-> Total(items, "fat"),
     fiber |-> Total(items, "fiber"), sodium |-> Total(items, "sodium")]

FormatResults(fs, values) ==
    LET items == SelectedItems(fs, values)
    IN [status |-> "Optimal", meals |-> MealBuckets(items), totals |-> Totals(items),
        items_selected |-> items, num_items |-> Len(items)]

\* the dict {}
EmptyDict == <<>>

\* the result of lines 94-99
NoValidMeals ==
    [status |-> "Error",
     message |-> [text |-> "No valid meals selected. Choose from: breakfast, lunch, dinner",
                  arg |-> <<>>],
     meals |-> EmptyDict, totals |-> EmptyDict]

\* the result of lines 125-130
NoFoods(selected) ==
    [status |-> "Error",
     message |-> [text |-> "No foods available for selected meals: ",
                  arg |-> JoinComma(selected)],
     meals |-> EmptyDict, totals |-> EmptyDict]

\* NonOptimal with the solver's status replaced by "Error"
NonOptimalAsError(status, selected) ==
    [status |-> "Error",
     message |-> [text |-> "Could not find optimal solution. Try relaxing constraints.",
                  arg |-> <<>>],
     meals |-> EmptyDict, totals |-> EmptyDict, selected_meals |-> selected]

\* the result of lines 198-204
NonOptimal(status, selected) ==
    [status |-> status,
     message |-> [text |-> "Could not find optimal solution. Try relaxing constraints.",
                  arg |-> <<>>],
     meals |-> EmptyDict, totals |-> EmptyDict, selected_meals |-> selected]

\* ItemsToExclude with the threshold of line 259 at 3 servings
ItemsToExcludeFromThree(res) ==
    LET Prominent(item) == item["servings"] >= 3
        heavy == SelectSeq(res["items_selected"], Prominent)
    IN [k \in DOMAIN heavy |-> heavy[k]["name"]]

\* items_to_exclude of lines 257-260
ItemsToExclude(res) ==
    LET Prominent(item) == item["servings"] >= 2
        heavy == SelectSeq(res["items_selected"], Prominent)
    IN [k \in DOMAIN heavy |-> heavy[k]["name"]]

(***************************************************************************)
(* The state: the shared optimizer instance and every caller's call.       *)
(***************************************************************************)
VARIABLES
    foods,           \* self.foods, shared by every call
    loaded,          \* the catalog as _load_menu_data read it
    pc,              \* where each caller's call stands
    kind,            \* the entry point it called
    req,             \* the keyword arguments it passed
    num_plans,       \* generate_multiple_plans: num_plans
    args,            \* optimize_meal_plan: its keyword arguments
    selected_meals,  \* optimize_meal_plan: selected_meals after validation
    prob,            \* optimize_meal_plan: the LpProblem
    solution,        \* the solver's status and values
    result,          \* the dict optimize_meal_plan returns
    plans,           \* generate_multiple_plans: plans
    excluded_items,  \* generate_multiple_plans: excluded_items
    plan_num,        \* generate_multiple_plans: plan_num
    solves,          \* solver invocations of the call so far
    error            \* the exception that ended the call

vars ==
    <<foods, loaded, pc, kind, req, num_plans, args, selected_meals, prob, solution,
      result, plans, excluded_items, plan_num, solves, error>>

Callers == {1, 2}

None == <<>>

Everywhere(v) == [c \in Callers |-> v]

InitCalls ==
    /\ pc = Everywhere("idle")
    /\ kind = Everywhere("")
    /\ req = Everywhere(None)
    /\ num_plans = Everywhere(0)
    /\ args = Everywhere(None)
    /\ selected_meals = Everywhere(None)
    /\ prob = Everywhere(None)
    /\ solution = Everywhere(None)
    /\ result = Everywhere(None)
    /\ plans = Everywhere(None)
    /\ excluded_items = Everywhere(None)
    /\ plan_num = Everywhere(0)
    /\ solves = Everywhere(0)
    /\ error = Everywhere("")

\* MealOptimizer.__init__ (lines 32-40)
Init ==
    /\ foods \in Catalogs
    /\ loaded = foods
    /\ InitCalls

\* optimize_meal_plan is entered with the keyword arguments a, its locals fresh:
\* lines 85-99
Enter(c, a) ==
    /\ args' = [args EXCEPT ![c] = a]
    /\ prob' = [prob EXCEPT ![c] = None]
    /\ solution' = [solution EXCEPT ![c] = None]
    /\ selected_meals' = [selected_meals EXCEPT ![c] = SelectedMeals(a)]
    /\ IF SelectedMeals(a) = <<>>
       THEN /\ result' = [result EXCEPT ![c] = NoValidMeals]
            /\ pc' = [pc EXCEPT ![c] = "opt_return"]
       ELSE /\ pc' = [pc EXCEPT ![c] = "build"]
            /\ UNCHANGED result

\* optimize_meal_plan is called with the keyword arguments r
CallOptimize(c, r) ==
    /\ pc[c] = "idle"
    /\ kind' = [kind EXCEPT ![c] = "optimizePlan"]
    /\ req' = [req EXCEPT ![c] = r]
    /\ Enter(c, r)
    /\ UNCHANGED <<foods, loaded, num_plans, plans, excluded_items, plan_num, solves, error>>

\* generate_multiple_plans is called with num_plans = n and the keyword arguments r
\* (lines 231-232)
CallGenerate(c, r, n) ==
    /\ pc[c] = "idle"
    /\ kind' = [kind EXCEPT ![c] = "generatePlans"]
    /\ req' = [req EXCEPT ![c] = r]
    /\ num_plans' = [num_plans EXCEPT ![c] = n]
    /\ plans' = [plans EXCEPT ![c] = <<>>]
    /\ excluded_items' = [excluded_items EXCEPT ![c] = <<>>]
    /\ plan_num' = [plan_num EXCEPT ![c] = 0]
    /\ pc' = [pc EXCEPT ![c] = "gen_loop"]
    /\ UNCHANGED <<foods, loaded, args, selected_meals, prob, solution, result, solves, error>>

\* the keyword arguments of the call of lines 238-244; exclude_items among **kwargs
\* is a second value for that keyword: TypeError
SubCallArgs(r, excluded) == ("exclude_items" :> excluded) @@ r

\* the head of the loop (line 234), the call of lines 238-244, the return of line 265
GenIterate(c) ==
    /\ pc[c] = "gen_loop"
    /\ IF plan_num[c] < num_plans[c]
       THEN IF "exclude_items" \in DOMAIN req[c]
            THEN /\ pc' = [pc EXCEPT ![c] = "raised"]
                 /\ error' = [error EXCEPT ![c] = "TypeError"]
                 /\ UNCHANGED <<args, selected_meals, prob, solution, result>>
            ELSE /\ Enter(c, SubCallArgs(req[c], excluded_items[c]))
                 /\ UNCHANGED error
       ELSE /\ pc' = [pc EXCEPT ![c] = "done"]
            /\ UNCHANGED <<args, selected_meals, prob, solution, result, error>>
    /\ UNCHANGED <<foods, loaded, kind, req, num_plans, plans, excluded_items, plan_num,
                   solves>>

\* Build without the test of line 124
BuildUnchecked(c) ==
    /\ pc[c] = "build"
    /\ LET food_vars == FoodVars(foods, selected_meals[c], ExcludeSet(args[c]))
           p == Problem(foods, food_vars, selected_meals[c], args[c])
       IN IF OverlappingNames(p.constraints)
          THEN /\ pc' = [pc EXCEPT ![c] = "raised"]
               /\ error' = [error EXCEPT ![c] = "PulpError"]
               /\ UNCHANGED <<prob, result>>
          ELSE /\ prob' = [prob EXCEPT ![c] = p]
               /\ pc' = [pc EXCEPT ![c] = "solve"]
               /\ UNCHANGED <<result, error>>
    /\ UNCHANGED <<foods, loaded, kind, req, num_plans, args, selected_meals, solution,
                   plans, excluded_items, plan_num, solves>>

\* lines 101-185
Build(c) ==
    /\ pc[c] = "build"
    /\ LET food_vars == FoodVars(foods, selected_meals[c], ExcludeSet(args[c]))
           p == Problem(foods, food_vars, selected_meals[c], args[c])
       IN IF food_vars = {}
          THEN /\ result' = [result EXCEPT ![c] = NoFoods(selected_meals[c])]
               /\ pc' = [pc EXCEPT ![c] = "opt_return"]
               /\ UNCHANGED <<prob, error>>
          ELSE IF OverlappingNames(p.constraints)
          THEN /\ pc' = [pc EXCEPT ![c] = "raised"]
               /\ error' = [error EXCEPT ![c] = "PulpError"]
               /\ UNCHANGED <<prob, result>>
          ELSE /\ prob' = [prob EXCEPT ![c] = p]
               /\ pc' = [pc EXCEPT ![c] = "solve"]
               /\ UNCHANGED <<result, error>>
    /\ UNCHANGED <<foods, loaded, kind, req, num_plans, args, selected_meals, solution,
                   plans, excluded_items, plan_num, solves>>

\* Solve with one retry of a solve that was not Optimal
SolveWithRetry(c) ==
    /\ pc[c] = "solve"
    /\ \E o \in SolverOutcomes(prob[c]) :
          /\ solution' = [solution EXCEPT ![c] = o]
          /\ solves' = [solves EXCEPT ![c] = @ + (IF o.status = "Optimal" THEN 1 ELSE 2)]
    /\ pc' = [pc EXCEPT ![c] = "format"]
    /\ UNCHANGED <<foods, loaded, kind, req, num_plans, args, selected_meals, prob, result,
                   plans, excluded_items, plan_num, error>>

\* lines 187-191
Solve(c) ==
    /\ pc[c] = "solve"
    /\ \E o \in SolverOutcomes(prob[c]) : solution' = [solution EXCEPT ![c] = o]
    /\ solves' = [solves EXCEPT ![c] = @ + 1]
    /\ pc' = [pc EXCEPT ![c] = "format"]
    /\ UNCHANGED <<foods, loaded, kind, req, num_plans, args, selected_meals, prob, result,
                   plans, excluded_items, plan_num, error>>

\* lines 193-204, with _format_results
Format(c) ==
    /\ pc[c] = "format"
    /\ IF solution[c].status = "Optimal"
       THEN /\ result' = [result EXCEPT ![c] =
                             FormatResults(foods, solution[c].values)
                                @@ [selected_meals |-> selected_meals[c]]]
            /\ foods' = CatalogAfterFormat(foods, solution[c].values)
       ELSE /\ result' = [result EXCEPT ![c] =
                             NonOptimal(solution[c].status, selected_meals[c])]
            /\ UNCHANGED foods
    /\ pc' = [pc EXCEPT ![c] = "opt_return"]
    /\ UNCHANGED <<loaded, kind, req, num_plans, args, selected_meals, prob, solution,
                   plans, excluded_items, plan_num, solves, error>>

\* optimize_meal_plan returns to the caller of the entry point
OptReturn(c) ==
    /\ pc[c] = "opt_return"
    /\ kind[c] = "optimizePlan"
    /\ pc' = [pc EXCEPT ![c] = "done"]
    /\ UNCHANGED <<foods, loaded, kind, req, num_plans, args, selected_meals, prob,
                   solution, result, plans, excluded_items, plan_num, solves, error>>

\* GenCollect with plans.append(result) moved above the test of the status
GenCollectAppendFirst(c) ==
    /\ pc[c] = "opt_return"
    /\ kind[c] = "generatePlans"
    /\ plans' = [plans EXCEPT ![c] = Append(@, result[c])]
    /\ IF result[c]["status"] # "Optimal"
       THEN /\ pc' = [pc EXCEPT ![c] = "done"]
            /\ UNCHANGED <<excluded_items, plan_num>>
       ELSE /\ excluded_items' = [excluded_items EXCEPT ![c] = @ \o ItemsToExclude(result[c])]
            /\ plan_num' = [plan_num EXCEPT ![c] = @ + 1]
            /\ pc' = [pc EXCEPT ![c] = "gen_loop"]
    /\ UNCHANGED <<foods, loaded, kind, req, num_plans, args, selected_meals, prob,
                   solution, result, solves, error>>

\* GenCollect with "continue" in place of the "break" of line 251
GenCollectContinue(c) ==
    /\ pc[c] = "opt_return"
    /\ kind[c] = "generatePlans"
    /\ IF result[c]["status"] # "Optimal"
       THEN /\ plan_num' = [plan_num EXCEPT ![c] = @ + 1]
            /\ pc' = [pc EXCEPT ![c] = "gen_loop"]
            /\ UNCHANGED <<plans, excluded_items>>
       ELSE /\ plans' = [plans EXCEPT ![c] = Append(@, result[c])]
            /\ excluded_items' = [excluded_items EXCEPT ![c] = @ \o ItemsToExclude(result[c])]
            /\ plan_num' = [plan_num EXCEPT ![c] = @ + 1]
            /\ pc' = [pc EXCEPT ![c] = "gen_loop"]
    /\ UNCHANGED <<foods, loaded, kind, req, num_plans, args, selected_meals, prob,
                   solution, result, solves, error>>

\* lines 246-263: break on a non-Optimal result, else keep the plan and extend
\* the exclusion list
GenCollect(c) ==
    /\ pc[c] = "opt_return"
    /\ kind[c] = "generatePlans"
    /\ IF result[c]["status"] # "Optimal"
       THEN /\ pc' = [pc EXCEPT ![c] = "done"]
            /\ UNCHANGED <<plans, excluded_items, plan_num>>
       ELSE /\ plans' = [plans EXCEPT ![c] = Append(@, result[c])]
            /\ excluded_items' = [excluded_items EXCEPT ![c] = @ \o ItemsToExclude(result[c])]
            /\ plan_num' = [plan_num EXCEPT ![c] = @ + 1]
            /\ pc' = [pc EXCEPT ![c] = "gen_loop"]
    /\ UNCHANGED <<foods, loaded, kind, req, num_plans, args, selected_meals, prob,
                   solution, result, solves, error>>

\* the call is over; the caller may call again
Finish(c) ==
    /\ pc[c] \in {"done", "raised"}
    /\ pc' = [pc EXCEPT ![c] = "idle"]
    /\ kind' = [kind EXCEPT ![c] = ""]
    /\ req' = [req EXCEPT ![c] = None]
    /\ num_plans' = [num_plans EXCEPT ![c] = 0]
    /\ args' = [args EXCEPT ![c] = None]
    /\ selected_meals' = [selected_meals EXCEPT ![c] = None]
    /\ prob' = [prob EXCEPT ![c] = None]
    /\ solution' = [solution EXCEPT ![c] = None]
    /\ result' = [result EXCEPT ![c] = None]
    /\ plans' = [plans EXCEPT ![c] = None]
    /\ excluded_items' = [excluded_items EXCEPT ![c] = None]
    /\ plan_num' = [plan_num EXCEPT ![c] = 0]
    /\ solves' = [solves EXCEPT ![c] = 0]
    /\ error' = [error EXCEPT ![c] = ""]
    /\ UNCHANGED <<foods, loaded>>

Step(c) ==
    \/ GenIterate(c)
    \/ Build(c)
    \/ Solve(c)
    \/ Format(c)
    \/ OptReturn(c)
    \/ GenCollect(c)
    \/ Finish(c)

\* one caller at a time
Next ==
    \/ \E r \in Requests : CallOptimize(1, r)
    \/ \E r \in Requests, n \in 1..MaxPlans : CallGenerate(1, r, n)
    \/ Step(1)

Spec == Init /\ [][Next]_vars

(***************************************************************************)
(* Concurrent calls: two callers (two requests served at once by the       *)
(* module-level optimizer of main.py) interleave their steps.  The inputs  *)
(* are fewer: the catalogs of at most two records that hold Chicken, and   *)
(* the requests for 600 calories with one to two fruits.                   *)
(***************************************************************************)
ConcCatalogs ==
    { cat \in Catalogs :
        Len(cat) <= 2 /\ \E i \in DOMAIN cat : cat[i]["name"] = "Chicken" }

ConcRequests ==
    { r \in Requests :
        /\ r["target_calories"] = 600
        /\ r["min_fruits"] = 1
        /\ r["max_fruits"] = 2
        /\ r["max_servings_per_item"] = 2
        /\ "selected_meals" \in DOMAIN r =>
              r["selected_meals"] \in { << <<"L", "U", "N", "C", "H">> >>, <<LUNCH, LUNCH>> } }

InitConc ==
    /\ foods \in ConcCatalogs
    /\ loaded = foods
    /\ InitCalls

NextConc ==
    \E c \in Callers :
        \/ \E r \in ConcRequests : CallOptimize(c, r)
        \/ \E r \in ConcRequests, n \in 1..MaxPlans : CallGenerate(c, r, n)
        \/ Step(c)

SpecConc == InitConc /\ [][NextConc]_vars

(***************************************************************************)
(* Properties.  optimize_meal_plan has just returned result[c] for the     *)
(* arguments args[c] when pc[c] = "opt_return": this is every return of    *)
(* optimizePlan and of every single-plan solve of generatePlans.           *)
(***************************************************************************)
Returned(c) == pc[c] = "opt_return"

ReturnedOptimal(c) == Returned(c) /\ result[c]["status"] = "Optimal"

\* the eligible set of the solve that has just returned
EligibleNow(c) == FoodVars(foods, selected_meals[c], ExcludeSet(args[c]))

\* the servings of the items of a plan that satisfy a test
ServingsOf(items, S) == SumF([k \in DOMAIN items |-> items[k]["servings"]], S)

FruitServings(items) ==
    ServingsOf(items, { k \in DOMAIN items : IsFruit(items[k]) })

\* C1: whenever optimize_meal_plan returns status Optimal, totals.calories lies in
\* [target_calories - calorie_tolerance, target_calories + calorie_tolerance].
C1_CaloriesInBand ==
    \A c \in Callers :
        ReturnedOptimal(c) =>
            /\ result[c]["totals"]["calories"]
                  >= args[c]["target_calories"] - args[c]["calorie_tolerance"]
            /\ result[c]["totals"]["calories"]
                  <= args[c]["target_calories"] + args[c]["calorie_tolerance"]

\* an Optimal plan whose calories differ from the target, inside the band
C1_Witness ==
    \E c \in Callers :
        /\ ReturnedOptimal(c)
        /\ result[c]["num_items"] >= 2
        /\ result[c]["totals"]["calories"] > args[c]["target_calories"]

\* C2: whenever optimize_meal_plan returns status Optimal, totals.protein lies in
\* [target_protein - protein_tolerance, target_protein + protein_tolerance].
C2_ProteinInBand ==
    \A c \in Callers :
        ReturnedOptimal(c) =>
            /\ result[c]["totals"]["protein"]
                  >= args[c]["target_protein"] - args[c]["protein_tolerance"]
            /\ result[c]["totals"]["protein"]
                  <= args[c]["target_protein"] + args[c]["protein_tolerance"]

\* an Optimal plan whose protein differs from the target, inside the band
C2_Witness ==
    \E c \in Callers :
        /\ ReturnedOptimal(c)
        /\ result[c]["num_items"] >= 2
        /\ result[c]["totals"]["protein"] > args[c]["target_protein"]

\* whether the problem of caller c holds a row of that name
HasRow(c, name) ==
    \E k \in DOMAIN prob[c].constraints : prob[c].constraints[k].name = name

\* C3: in every Optimal result, of optimizePlan and of every single-plan solve of
\* generatePlans (eligibility judged with that solve's exclusions): if an eligible
\* item is a fruit, the fruit servings of items_selected are in
\* [min_fruits, max_fruits]; if none is, the problem solved holds no fruit row, and
\* the result is Optimal with zero fruit servings whatever min_fruits is.
C3_FruitRange ==
    \A c \in Callers :
        ReturnedOptimal(c) =>
            LET fruit_servings == FruitServings(result[c]["items_selected"])
            IN IF \E i \in EligibleNow(c) : IsFruit(foods[i])
               THEN /\ fruit_servings >= args[c]["min_fruits"]
                    /\ fruit_servings <= args[c]["max_fruits"]
               ELSE /\ ~ HasRow(c, MIN_FRUITS)
                    /\ ~ HasRow(c, MAX_FRUITS)
                    /\ fruit_servings = 0

\* generatePlans: the first plan holds two servings of fruit, between min_fruits = 1
\* and max_fruits = 2; the fruit is then excluded, and the second solve, with no
\* eligible fruit left, is Optimal without fruit
C3_Witness ==
    \E c \in Callers :
        /\ ReturnedOptimal(c)
        /\ kind[c] = "generatePlans"
        /\ Len(plans[c]) = 1
        /\ FruitServings(plans[c][1]["items_selected"]) = 2
        /\ args[c]["min_fruits"] >= 1
        /\ \E i \in DOMAIN foods : IsFruit(foods[i])
        /\ ~ \E i \in EligibleNow(c) : IsFruit(foods[i])
        /\ result[c]["num_items"] >= 1

\* a selected item without its servings annotation: the catalog record it copies
Unannotated(item) == [key \in DOMAIN item \ {"servings"} |-> item[key]]

\* C4: in every Optimal result, every item of items_selected belongs to the eligible
\* set of that solve: it is a catalog record whose meal_time is one of the selected
\* meals and whose name is not in exclude_items.
C4_SelectedAreEligible ==
    \A c \in Callers :
        ReturnedOptimal(c) =>
            \A k \in DOMAIN result[c]["items_selected"] :
                LET item == result[c]["items_selected"][k]
                IN /\ InList(item["meal_time"], SelectedMeals(args[c]))
                   /\ ~ InList(item["name"], Get(args[c], "exclude_items", <<>>))
                   /\ \E i \in EligibleNow(c) : foods[i] = Unannotated(item)

\* an Optimal plan of a request that excludes an item of the catalog's selected meals
C4_Witness ==
    \E c \in Callers :
        /\ ReturnedOptimal(c)
        /\ result[c]["num_items"] >= 1
        /\ Len(SelectedMeals(args[c])) < 3
        /\ \E i \in DOMAIN foods :
              /\ InList(foods[i]["meal_time"], SelectedMeals(args[c]))
              /\ InList(foods[i]["name"], Get(args[c], "exclude_items", <<>>))
        /\ \E i \in DOMAIN foods : ~ InList(foods[i]["meal_time"], SelectedMeals(args[c]))

\* the solver has answered the problem of caller c with values
Solved(c) == pc[c] \in {"format", "opt_return"} /\ solution[c] # None
                /\ solution[c].status = "Optimal"

\* C5: in every Optimal result, every item of items_selected carries an integer
\* servings with 1 <= servings <= max_servings_per_item, and for every value the
\* solver returns the inclusion test (> 0.01) holds exactly when the value rounds
\* to 1 or more.
C5_ServingsInRange ==
    \A c \in Callers :
        /\ ReturnedOptimal(c) =>
              \A k \in DOMAIN result[c]["items_selected"] :
                  /\ result[c]["items_selected"][k]["servings"] \in Int
                  /\ result[c]["items_selected"][k]["servings"] >= 1
                  /\ result[c]["items_selected"][k]["servings"]
                        <= args[c]["max_servings_per_item"]
        /\ Solved(c) =>
              \A i \in DOMAIN solution[c].values :
                  Included(solution[c].values[i]) <=> Rounded(solution[c].values[i]) >= 1

\* an Optimal result from values that are not integers: one just under 2 servings,
\* selected with 2, and one just under 0, left out
C5_Witness ==
    \E c \in Callers :
        /\ ReturnedOptimal(c)
        /\ \E i \in DOMAIN solution[c].values : solution[c].values[i] = 2 * Scale - IntTol
        /\ \E i \in DOMAIN solution[c].values : solution[c].values[i] = 0 - IntTol
        /\ \E k \in DOMAIN result[c]["items_selected"] :
              result[c]["items_selected"][k]["servings"] = 2
        /\ result[c]["num_items"] < Cardinality(DOMAIN solution[c].values)

\* C6, its state part: the plans of a generatePlans call are at most num_plans and
\* every one is Optimal, at every moment and so when the call returns.
C6_PlansBounded ==
    \A c \in Callers :
        kind[c] = "generatePlans" =>
            /\ Len(plans[c]) <= num_plans[c]
            /\ \A k \in DOMAIN plans[c] : plans[c][k]["status"] = "Optimal"

\* C6, its step part: when the first single-plan solve has returned a non-Optimal
\* result, the call's next step returns the empty list and raises nothing.
C6_FirstFailureStep ==
    \A c \in Callers :
        ( /\ kind[c] = "generatePlans"
          /\ Returned(c)
          /\ plan_num[c] = 0
          /\ result[c]["status"] # "Optimal"
          /\ pc'[c] # pc[c] )
        => ( pc'[c] = "done" /\ plans'[c] = <<>> /\ error'[c] = "" )

C7_ValidationError ==
    \A c \in Callers :
        LET selected == SelectedMeals(req[c])
            eligible == FoodVars(foods, selected, ExcludeSet(req[c]))
        IN (kind[c] = "optimizePlan" /\ (selected = <<>> \/ eligible = {})) =>
              /\ pc[c] \in {"build", "opt_return", "done"}
              /\ solves[c] = 0
              /\ error[c] = ""
              /\ pc[c] \in {"opt_return", "done"} =>
                    /\ result[c]["status"] = "Error"
                    /\ result[c]["meals"] = EmptyDict
                    /\ result[c]["totals"] = EmptyDict
                    /\ \A k \in DOMAIN selected :
                          Contains(selected[k], result[c]["message"]["arg"])

\* optimizePlan has returned Error for two selected meals whose only catalog items
\* are excluded by name
C7_Witness ==
    \E c \in Callers :
        /\ kind[c] = "optimizePlan"
        /\ pc[c] = "done"
        /\ Len(SelectedMeals(req[c])) = 2
        /\ ExcludeSet(req[c]) # {}
        /\ \E i \in DOMAIN foods : foods[i]["meal_time"] = LUNCH
        /\ result[c]["status"] = "Error"
        /\ result[c]["message"]["arg"] # <<>>

MealCalories(res, meal_time) == Total(res["meals"][meal_time], "calories")

\* C9: in every Optimal plan, each selected meal has at least one quarter of the
\* plan's total calories.  Stated for the selected meals that have an eligible item
\* only: a selected meal without one has no calories at all.
C9_QuarterOfTotal ==
    \A c \in Callers :
        ReturnedOptimal(c) =>
            \A k \in DOMAIN selected_meals[c] :
                MealFoods(foods, EligibleNow(c), selected_meals[c][k]) # {} =>
                    4 * MealCalories(result[c], selected_meals[c][k])
                        >= result[c]["totals"]["calories"]

(***************************************************************************)
(* What a call returns when it runs alone on the catalog fs: the set of    *)
(* its possible outcomes, a return value or an exception.                  *)
(***************************************************************************)
Ret(value) == [how |-> "returned", value |-> value]

Raise(exception) == [how |-> "raised", value |-> exception]

\* optimize_meal_plan(**a), alone
SoloOptimize(fs, a) ==
    LET selected == SelectedMeals(a)
        food_vars == FoodVars(fs, selected, ExcludeSet(a))
        p == Problem(fs, food_vars, selected, a)
    IN IF selected = <<>> THEN { Ret(NoValidMeals) }
       ELSE IF food_vars = {} THEN { Ret(NoFoods(selected)) }
       ELSE IF OverlappingNames(p.constraints) THEN { Raise("PulpError") }
       ELSE { Ret(IF o.status = "Optimal"
                  THEN FormatResults(fs, o.values) @@ [selected_meals |-> selected]
                  ELSE NonOptimal(o.status, selected)) : o \in SolverOutcomes(p) }

\* the rest of generate_multiple_plans(n, **r), alone, from the head of its loop
RECURSIVE SoloLoop(_, _, _, _, _, _)
SoloLoop(fs, r, n, done_plans, excluded, k) ==
    IF k >= n THEN { Ret(done_plans) }
    ELSE IF "exclude_items" \in DOMAIN r THEN { Raise("TypeError") }
    ELSE UNION { IF o.how = "raised" THEN { o }
                 ELSE IF o.value["status"] # "Optimal" THEN { Ret(done_plans) }
                 ELSE SoloLoop(fs, r, n, Append(done_plans, o.value),
                               excluded \o ItemsToExclude(o.value), k + 1) :
                 o \in SoloOptimize(fs, SubCallArgs(r, excluded)) }

SoloGenerate(fs, r, n) == SoloLoop(fs, r, n, <<>>, <<>>, 0)

\* the outcome of the call of caller c, once it is over
Outcome(c) ==
    IF pc[c] = "raised" THEN Raise(error[c])
    ELSE IF kind[c] = "optimizePlan" THEN Ret(result[c])
    ELSE Ret(plans[c])

\* C10: the catalog is never mutated: under any interleaving of the optimizePlan
\* and generatePlans calls of two callers that share the optimizer, every catalog
\* record stays as loaded, none gains a servings field, and every call ends with
\* an outcome it can have when it runs alone on the loaded catalog.
C10_CatalogImmutable ==
    /\ foods = loaded
    /\ \A i \in DOMAIN foods : "servings" \notin DOMAIN foods[i]
    /\ \A c \in Callers :
          pc[c] \in {"done", "raised"} =>
              Outcome(c) \in ( IF kind[c] = "optimizePlan"
                               THEN SoloOptimize(loaded, req[c])
                               ELSE SoloGenerate(loaded, req[c], num_plans[c]) )

\* caller 1 has returned from generatePlans with two plans while caller 2, whose
\* optimizePlan call built its problem on the same catalog, has its result formatted
C10_Witness ==
    /\ kind[1] = "generatePlans"
    /\ pc[1] = "done"
    /\ Len(plans[1]) = 2
    /\ kind[2] = "optimizePlan"
    /\ ReturnedOptimal(2)
    /\ result[2]["items_selected"] # plans[1][2]["items_selected"]

(***************************************************************************)
(* generate_multiple_plans: the exclusion list across iterations           *)
(***************************************************************************)
\* the elements of a list
ToSet(list) == { list[k] : k \in DOMAIN list }

\* the names of the items of a plan
ItemNames(res) == { res["items_selected"][k]["name"] : k \in DOMAIN res["items_selected"] }

\* the names of the items of a plan that have two servings or more
HeavyNames(res) ==
    { res["items_selected"][k]["name"] :
        k \in { j \in DOMAIN res["items_selected"] :
                  res["items_selected"][j]["servings"] >= 2 } }

\* a single-plan solve of generatePlans is under way or has just returned
InSubCall(c) ==
    kind[c] = "generatePlans" /\ pc[c] \in {"build", "solve", "format", "opt_return"}

\* C11, its state part: no name that had two servings or more in a plan is in a
\* later plan, kept or just returned; every such name is in the exclusion list, and
\* no name of the exclusion list is eligible in the solve under way.
C11_HeavyStayOut ==
    \A c \in Callers :
        kind[c] = "generatePlans" =>
            /\ \A k, j \in DOMAIN plans[c] :
                  k < j => HeavyNames(plans[c][k]) \cap ItemNames(plans[c][j]) = {}
            /\ \A k \in DOMAIN plans[c] : HeavyNames(plans[c][k]) \subseteq ToSet(excluded_items[c])
            /\ InSubCall(c) =>
                  \A i \in EligibleNow(c) : foods[i]["name"] \notin ToSet(excluded_items[c])
            /\ ReturnedOptimal(c) => ItemNames(result[c]) \cap ToSet(excluded_items[c]) = {}

\* C11, its step part: within a call the exclusion list only grows.
C11_ExclusionGrows ==
    \A c \in Callers :
        (kind[c] = "generatePlans" /\ kind'[c] = "generatePlans") =>
            /\ Len(excluded_items'[c]) >= Len(excluded_items[c])
            /\ SubSeq(excluded_items'[c], 1, Len(excluded_items[c])) = excluded_items[c]

\* C11: during generatePlans an item that has two servings or more in the plan of
\* an iteration never appears in the plan of a later iteration: the exclusion set
\* only grows and every name in it is ineligible in all the solves that follow.
C11_ExclusionAccumulates == [] C11_HeavyStayOut /\ [][C11_ExclusionGrows]_vars

\* generatePlans has returned two plans; the first has an item with two servings,
\* still in the catalog, and the second is made of other items
C11_Witness ==
    \E c \in Callers :
        /\ kind[c] = "generatePlans"
        /\ pc[c] = "done"
        /\ Len(plans[c]) = 2
        /\ HeavyNames(plans[c][1]) # {}
        /\ ToSet(excluded_items[c]) # {}
        /\ plans[c][2]["num_items"] >= 1

\* C12: during generatePlans every catalog record selected with exactly one serving
\* in the latest plan, and with two or more in no plan before it, is in the eligible
\* set of the next iteration's solve, whether or not two records share a name.
C12_OnceUsedStayEligible ==
    \A c \in Callers :
        (InSubCall(c) /\ plan_num[c] >= 1 /\ selected_meals[c] # <<>>) =>
            \A i \in DOMAIN foods :
                ( /\ \E k \in DOMAIN plans[c][plan_num[c]]["items_selected"] :
                        plans[c][plan_num[c]]["items_selected"][k] = ("servings" :> 1) @@ foods[i]
                  /\ \A j \in 1..(plan_num[c] - 1) :
                        ~ \E k \in DOMAIN plans[c][j]["items_selected"] :
                            /\ Unannotated(plans[c][j]["items_selected"][k]) = foods[i]
                            /\ plans[c][j]["items_selected"][k]["servings"] >= 2 )
                => i \in EligibleNow(c)

\* C13: in every iteration of generatePlans the single-plan solve runs, with
\* exclude_items equal to the union of the request's own exclude_items and the
\* exclusion list accumulated so far, so that no plan holds an item the request
\* excluded.
C13_ExcludeMerged ==
    \A c \in Callers :
        kind[c] = "generatePlans" =>
            /\ pc[c] = "raised" => error[c] # "TypeError"
            /\ InSubCall(c) =>
                  ExcludeSet(args[c]) = ExcludeSet(req[c]) \cup ToSet(excluded_items[c])
            /\ \A k \in DOMAIN plans[c] : ItemNames(plans[c][k]) \cap ExcludeSet(req[c]) = {}

\* C14, its state part: when generatePlans returns, its list holds the plans of the
\* iterations that were Optimal, all of them, and it is short only because the
\* iteration after the last of them was not Optimal; nothing was raised.
C14_ReturnedPlans ==
    \A c \in Callers :
        (kind[c] = "generatePlans" /\ pc[c] = "done") =>
            /\ error[c] = ""
            /\ Len(plans[c]) = plan_num[c]
            /\ \A k \in DOMAIN plans[c] : plans[c][k]["status"] = "Optimal"
            /\ plan_num[c] < num_plans[c] =>
                  /\ result[c]["status"] # "Optimal"
                  /\ ~ InList(result[c], plans[c])

\* C14, its step part: the step after a non-Optimal sub-result ends the loop with
\* the list as it was, no solve and no error; the step after an Optimal one appends
\* it at the end of the list; a call that has returned starts nothing more.
C14_StopStep ==
    \A c \in Callers :
        /\ ( /\ kind[c] = "generatePlans"
             /\ Returned(c)
             /\ result[c]["status"] # "Optimal"
             /\ pc'[c] # pc[c] )
           => ( /\ pc'[c] = "done"
                /\ plans'[c] = plans[c]
                /\ solves'[c] = solves[c]
                /\ error'[c] = "" )
        /\ ( /\ kind[c] = "generatePlans"
             /\ ReturnedOptimal(c)
             /\ pc'[c] # pc[c] )
           => plans'[c] = Append(plans[c], result[c])
        /\ (kind[c] = "generatePlans" /\ pc[c] = "done" /\ pc'[c] # pc[c]) => pc'[c] = "idle"

\* C14: generatePlans stops at the first sub-result that is not Optimal: it does not
\* append it, starts no further solve, raises nothing, and returns exactly the
\* plans accumulated before that iteration, in the order they were generated.
C14_SoftStop == [] C14_ReturnedPlans /\ [][C14_StopStep]_vars

\* generatePlans, asked for two plans, has returned none after the single solve of
\* its first iteration reported Infeasible
C14_Witness ==
    \E c \in Callers :
        /\ kind[c] = "generatePlans"
        /\ pc[c] = "done"
        /\ num_plans[c] = 2
        /\ plans[c] = <<>>
        /\ solves[c] = 1
        /\ result[c]["status"] = "Infeasible"

\* whether optimize_meal_plan(**a) passes both early returns and reaches the solver
ReachesSolver(a) ==
    /\ SelectedMeals(a) # <<>>
    /\ FoodVars(foods, SelectedMeals(a), ExcludeSet(a)) # {}

PlanServings(c) ==
    LET items == result[c]["items_selected"]
    IN [i \in EligibleNow(c) |->
          IF \E k \in DOMAIN items : Unannotated(items[k]) = foods[i]
          THEN items[CHOOSE k \in DOMAIN items : Unannotated(items[k]) = foods[i]]["servings"]
          ELSE 0]

\* the sum of a nutrient times the servings x over the records of S
Weighted(fs, S, x, key) == SumF([i \in S |-> Get(fs[i], key, 0) * x[i]], S)

\* the eligible records of a meal
OfMeal(fs, E, m) == { i \in E : fs[i]["meal_time"] = m }

\* whether the servings x meet the per-meal minimum of the meal m: n times the
\* meal's calories reach target_calories times the factor (0.5 for breakfast among
\* several meals, 0.8 otherwise)
MeetsMealMinimum(fs, a, E, x, m) ==
    LET n == Len(SelectedMeals(a))
        tenfold == IF m = BREAKFAST /\ n > 1 THEN 5 ELSE 8
    IN 10 * n * Weighted(fs, OfMeal(fs, E, m), x, "calories") >= a["target_calories"] * tenfold

\* the integer assignments of servings to the eligible records E that satisfy the
\* calorie band, the protein band, the per-meal minimum and the fruit range
FeasiblePlans(fs, a, E) ==
    { x \in [E -> 0..a["max_servings_per_item"]] :
        /\ Weighted(fs, E, x, "calories") >= a["target_calories"] - a["calorie_tolerance"]
        /\ Weighted(fs, E, x, "calories") <= a["target_calories"] + a["calorie_tolerance"]
        /\ Weighted(fs, E, x, "protein") >= a["target_protein"] - a["protein_tolerance"]
        /\ Weighted(fs, E, x, "protein") <= a["target_protein"] + a["protein_tolerance"]
        /\ \A m \in ToSet(SelectedMeals(a)) :
              OfMeal(fs, E, m) # {} => MeetsMealMinimum(fs, a, E, x, m)
        /\ LET fruit == { i \in E : IsFruit(fs[i]) }
           IN fruit # {} =>
                 /\ SumF(x, fruit) >= a["min_fruits"]
                 /\ SumF(x, fruit) <= a["max_fruits"] }

\* ten times (total protein - diversity_weight x total servings)
PlanValue(fs, a, E, x) ==
    10 * Weighted(fs, E, x, "protein") - a["diversity_weight"] * SumF(x, E)

\* C16: in every Optimal result every selected meal with an eligible item has
\* calories of at least (target_calories / number of selected meals) times 0.5
\* (breakfast, several meals selected) or 0.8; a selected meal without an eligible
\* item has no row in the problem the solver is given.
C16_PerMealMinimum ==
    \A c \in Callers :
        (Returned(c) /\ solution[c] # None) =>
            \A k \in DOMAIN selected_meals[c] :
                LET m == selected_meals[c][k]
                IN IF OfMeal(foods, EligibleNow(c), m) # {}
                   THEN result[c]["status"] = "Optimal" =>
                           MeetsMealMinimum(foods, args[c], EligibleNow(c), PlanServings(c), m)
                   ELSE ~ HasRow(c, MealRowName(m))

\* an Optimal plan for three selected meals: breakfast has less than 0.8 of its
\* share of the target (and at least 0.5 of it), and one meal has no eligible item
C16_Witness ==
    \E c \in Callers :
        /\ ReturnedOptimal(c)
        /\ Len(selected_meals[c]) = 3
        /\ OfMeal(foods, EligibleNow(c), BREAKFAST) # {}
        /\ 30 * Weighted(foods, OfMeal(foods, EligibleNow(c), BREAKFAST),
                         PlanServings(c), "calories") < 8 * args[c]["target_calories"]
        /\ \E k \in DOMAIN selected_meals[c] :
              OfMeal(foods, EligibleNow(c), selected_meals[c][k]) = {}

\* every result optimize_meal_plan returns is Optimal exactly when a feasible plan
\* exists, and an Optimal one is a feasible plan of the largest value
MaximizerWhenReturned ==
    \A c \in Callers :
        Returned(c) =>
            LET E == EligibleNow(c)
                feasible == FeasiblePlans(foods, args[c], E)
            IN /\ result[c]["status"] = "Optimal" <=> feasible # {}
               /\ result[c]["status"] = "Optimal" =>
                     /\ PlanServings(c) \in feasible
                     /\ \A y \in feasible :
                           PlanValue(foods, args[c], E, y)
                              <= PlanValue(foods, args[c], E, PlanServings(c))

\* C17: an Optimal result maximizes total protein - diversity_weight x total
\* servings over the integer assignments that satisfy the calorie band, protein
\* band, per-meal minimum and fruit range, and the status is Optimal exactly when
\* such an assignment exists: so a solve that ends without an Optimal status, by
\* an exception too, had no feasible assignment.
C17_OptimalIsMaximizer ==
    /\ MaximizerWhenReturned
    /\ \A c \in Callers :
          (pc[c] = "raised" /\ error[c] = "PulpError") =>
              FeasiblePlans(foods, args[c], EligibleNow(c)) = {}

(***************************************************************************)
(* Requests that select the same meals                                     *)
(***************************************************************************)
\* a request without its selected_meals
OtherArguments(r) == [key \in DOMAIN r \ {"selected_meals"} |-> r[key]]

\* the requests that differ from r in the selected_meals list only, and whose list
\* holds the same set of valid meal names as the list of r
SameMeals(r) ==
    { r2 \in Requests :
        /\ "selected_meals" \in DOMAIN r2
        /\ OtherArguments(r2) = OtherArguments(r)
        /\ ToSet(SelectedMeals(r2)) = ToSet(SelectedMeals(r)) }

\* how a call ended: the status of its result, or the exception it raised
EndOf(outcome) ==
    IF outcome.how = "returned" THEN outcome.value["status"] ELSE outcome.value

\* the rows of the per-meal minimum the code builds for the request r
MealRowsOf(fs, r) ==
    ToSet(MealRows(fs, FoodVars(fs, SelectedMeals(r), ExcludeSet(r)), SelectedMeals(r), r))

\* C18: selected_meals is a case-insensitive subset of {breakfast, lunch, dinner}:
\* when optimizePlan has ended for a request, every request whose selected_meals
\* holds the same set of valid meal names (in another case or order, with invalid
\* or repeated entries) has the same eligible set, the same per-meal minimum rows,
\* their divisor the number of distinct selected meals, and can end the same way.
C18_MealsAsSet ==
    \A c \in Callers :
        ( /\ kind[c] = "optimizePlan"
          /\ pc[c] \in {"done", "raised"}
          /\ "selected_meals" \in DOMAIN req[c] )
        => /\ MealDivisor(SelectedMeals(req[c]))
                 = (IF SelectedMeals(req[c]) = <<>> THEN 1
                    ELSE Cardinality(ToSet(SelectedMeals(req[c]))))
           /\ \A r2 \in SameMeals(req[c]) :
                 /\ FoodVars(foods, SelectedMeals(r2), ExcludeSet(r2))
                       = FoodVars(foods, SelectedMeals(req[c]), ExcludeSet(req[c]))
                 /\ MealRowsOf(foods, r2) = MealRowsOf(foods, req[c])
                 /\ EndOf(Outcome(c)) \in { EndOf(o) : o \in SoloOptimize(foods, r2) }

\* the sum over the items of a list of a nutrient (0 when the item has none) times
\* the item's servings
RECURSIVE SumOverItems(_, _)
SumOverItems(items, key) ==
    IF items = <<>> THEN 0
    ELSE (IF key \in DOMAIN Head(items) THEN Head(items)[key] ELSE 0) * Head(items)["servings"]
            + SumOverItems(Tail(items), key)

Nutrients == {"calories", "protein", "carbs", "fat", "fiber", "sodium"}

\* C19: in every Optimal result totals.X is, for every nutrient X, the sum over
\* items_selected of item.X x item.servings, a missing nutrient counting as 0, and
\* num_items is the number of entries of items_selected.
C19_TotalsAreSums ==
    \A c \in Callers :
        ReturnedOptimal(c) =>
            /\ DOMAIN result[c]["totals"] = Nutrients
            /\ \A X \in Nutrients :
                  result[c]["totals"][X] = SumOverItems(result[c]["items_selected"], X)
            /\ result[c]["num_items"] = Len(result[c]["items_selected"])

\* an Optimal plan with an item of two servings and a nutrient that one of its
\* items lacks and another has
C19_Witness ==
    \E c \in Callers :
        /\ ReturnedOptimal(c)
        /\ \E k \in DOMAIN result[c]["items_selected"] :
              result[c]["items_selected"][k]["servings"] = 2
        /\ \E X \in Nutrients :
              /\ \E k \in DOMAIN result[c]["items_selected"] :
                    X \notin DOMAIN result[c]["items_selected"][k]
              /\ result[c]["totals"][X] > 0

\* how many entries of a list equal x
Occurrences(x, list) == Cardinality({ k \in DOMAIN list : list[k] = x })

\* C20: in every Optimal result the meal buckets partition items_selected: every
\* selected item is once in the bucket of its own meal_time and in no other, the
\* buckets hold nothing else, the bucket of a meal that was not selected is empty,
\* and no selected item has a meal_time without a bucket.
C20_BucketsPartition ==
    \A c \in Callers :
        ReturnedOptimal(c) =>
            LET items == result[c]["items_selected"]
                meals == result[c]["meals"]
            IN /\ DOMAIN meals = {BREAKFAST, LUNCH, DINNER}
               /\ \A k \in DOMAIN items :
                     /\ "meal_time" \in DOMAIN items[k]
                     /\ items[k]["meal_time"] \in DOMAIN meals
                     /\ \A m \in DOMAIN meals :
                           Occurrences(items[k], meals[m])
                              = (IF m = items[k]["meal_time"] THEN 1 ELSE 0)
               /\ \A m \in DOMAIN meals :
                     /\ \A j \in DOMAIN meals[m] : InList(meals[m][j], items)
                     /\ ~ InList(m, SelectedMeals(args[c])) => meals[m] = <<>>
               /\ Len(meals[BREAKFAST]) + Len(meals[LUNCH]) + Len(meals[DINNER]) = Len(items)

\* an Optimal plan with items in two buckets, from a catalog that also holds a
\* record of a meal that was not selected or of the meal_time "unknown"
C20_Witness ==
    \E c \in Callers :
        /\ ReturnedOptimal(c)
        /\ Cardinality({ m \in DOMAIN result[c]["meals"] : result[c]["meals"][m] # <<>> }) = 2
        /\ \E i \in DOMAIN foods : foods[i]["meal_time"] = UNKNOWN

====
